---- MODULE Spec2Model ----
(***************************************************************************)
(* Attendance clock-in/out application (src/app.py): the attendance table, *)
(* the login session cookies, the start/end handlers, the ranking and      *)
(* timetable views.  Instants are minutes since 1970-01-01T00:00Z.         *)
(***************************************************************************)
EXTENDS Integers, Sequences, FiniteSets, TLC

\* ------------------------------------------------------------------ bounds
MaxRows == 2
NumInstants == 2

\* ------------------------------------------------------- program constants
\* TZ = ZoneInfo("Asia/Tokyo"): a fixed offset of +09:00, in minutes
TZ == 540

\* SQL NULL / Python None for a timestamp column
NULL == -1

\* ------------------------------------------------------------ civil dates
\* days since 1970-01-01 of the proleptic Gregorian date y-m-d
DaysFromCivil(y, m, d) ==
  LET yy  == IF m <= 2 THEN y - 1 ELSE y
      era == yy \div 400
      yoe == yy - era * 400
      mp  == (m + 9) % 12
      doy == (153 * mp + 2) \div 5 + d - 1
      doe == yoe * 365 + yoe \div 4 - yoe \div 100 + doy
  IN  era * 146097 + doe - 719468

\* the date <<y, m, d>> of a day number
CivilFromDays(z) ==
  LET zz  == z + 719468
      era == zz \div 146097
      doe == zz - era * 146097
      yoe == (doe - doe \div 1460 + doe \div 36524 - doe \div 146096) \div 365
      doy == doe - (365 * yoe + yoe \div 4 - yoe \div 100)
      mp  == (5 * doy + 2) \div 153
      d   == doy - (153 * mp + 2) \div 5 + 1
      m   == IF mp < 10 THEN mp + 3 ELSE mp - 9
      y   == yoe + era * 400 + (IF m <= 2 THEN 1 ELSE 0)
  IN  <<y, m, d>>

IsLeap(y) == (y % 4 = 0) /\ ((y % 100 # 0) \/ (y % 400 = 0))

DaysInMonth(y, m) ==
  IF m = 2 THEN (IF IsLeap(y) THEN 29 ELSE 28)
  ELSE IF m \in {4, 6, 9, 11} THEN 30 ELSE 31

\* datetime.now(zone).date() / timestamptz::date : the local day number
LocalDay(t, zone) == (t + zone) \div 1440

\* minute of the local day (hour * 60 + minute)
LocalMinute(t, zone) == (t + zone) % 1440

\* local midnight of a day number, as an instant
DayStart(day, zone) == day * 1440 - zone

\* date.weekday(): Monday = 0
Weekday(day) == (day + 3) % 7

\* ------------------------------------------------------- ISO date strings
\* a string is a sequence of one-character strings
Digits == <<"0", "1", "2", "3", "4", "5", "6", "7", "8", "9">>

DigitChar(n) == Digits[n + 1]

DigitSet == {Digits[i] : i \in 1..10}

DigitValues == [c \in DigitSet |-> (CHOOSE i \in 1..10 : Digits[i] = c) - 1]

IsDigit(c) == c \in DigitSet

DigitVal(c) == DigitValues[c]

\* date.isoformat(): YYYY-MM-DD
isoformat(day) ==
  LET c == CivilFromDays(day)
      y == c[1]
      m == c[2]
      d == c[3]
  IN  << DigitChar((y \div 1000) % 10), DigitChar((y \div 100) % 10),
         DigitChar((y \div 10) % 10), DigitChar(y % 10), "-",
         DigitChar(m \div 10), DigitChar(m % 10), "-",
         DigitChar(d \div 10), DigitChar(d % 10) >>

\* the value raised by date.fromisoformat on a malformed string
ValueError == -2

\* date.fromisoformat(s): the day number, or ValueError
fromisoformat(s) ==
  IF /\ Len(s) = 10
     /\ s[5] = "-"
     /\ s[8] = "-"
     /\ \A i \in {1, 2, 3, 4, 6, 7, 9, 10} : IsDigit(s[i])
  THEN LET y == DigitVal(s[1]) * 1000 + DigitVal(s[2]) * 100
                  + DigitVal(s[3]) * 10 + DigitVal(s[4])
           m == DigitVal(s[6]) * 10 + DigitVal(s[7])
           d == DigitVal(s[9]) * 10 + DigitVal(s[10])
       IN  IF y >= 1 /\ m \in 1..12 /\ d >= 1 /\ d <= DaysInMonth(y, m)
           THEN DaysFromCivil(y, m, d)
           ELSE ValueError
  ELSE ValueError


\* ------------------------------------------------------------ input sets
Browsers == {"b1"}

\* what the LINE profile endpoint may answer: userId and displayName
\* (None: no userId; "": no displayName)
None == "None"

Profiles ==
  { [userId |-> "U1", displayName |-> "alice"],
    [userId |-> "U1", displayName |-> ""],
    [userId |-> "U2", displayName |-> "bob"],
    [userId |-> None, displayName |-> ""] }

\* values of secrets.token_urlsafe(24) drawn by /login
Tokens == {"s1"}

\* values of the state parameter a callback request may carry
StateParams == {None, "s1", "s2"}

\* values of the code parameter a callback request may carry
CodeParams == {None, "c"}

\* what LINE answers to one callback: whether the token endpoint returns an
\* access_token, and the profile
LineAnswers ==
  {[token_ok |-> TRUE, profile |-> p] : p \in Profiles}
    \cup {[token_ok |-> FALSE, profile |-> [userId |-> None, displayName |-> ""]]}

\* the instants at which requests arrive (clock readings), ascending, given in
\* Asia/Tokyo: 2024-01-31 09:15, 2024-02-02 09:00, 2024-02-02 09:30,
\* 2024-02-05 10:00, 2024-02-06 08:30, 2024-02-06 10:15, then one more day each
InstantTable ==
  << DaysFromCivil(2024, 1, 31) * 1440 + 9 * 60 + 15 - TZ,
     DaysFromCivil(2024, 2, 2) * 1440 + 9 * 60 - TZ,
     DaysFromCivil(2024, 2, 2) * 1440 + 9 * 60 + 30 - TZ,
     DaysFromCivil(2024, 2, 5) * 1440 + 10 * 60 - TZ,
     DaysFromCivil(2024, 2, 6) * 1440 + 8 * 60 + 30 - TZ,
     DaysFromCivil(2024, 2, 6) * 1440 + 10 * 60 + 15 - TZ >>

Instant(i) ==
  IF i <= Len(InstantTable) THEN InstantTable[i]
  ELSE InstantTable[Len(InstantTable)] + (i - Len(InstantTable)) * 1440

\* values of the day query parameter of /timetable: a date, a malformed
\* string, and a well-formed string that names no date
DayStrings ==
  { isoformat(DaysFromCivil(2024, 2, 2)),
    <<"a", "b", "c">>,
    <<"2", "0", "2", "4", "-", "0", "2", "-", "3", "0">> }

\* request.args of a /timetable request: without or with a day parameter
NoArgs == [k \in {} |-> <<>>]

TimetableArgs == {NoArgs} \cup {[day |-> d] : d \in DayStrings}

\* time zone settings a database session or the app process may run under
\* (the program sets neither): UTC or Asia/Tokyo, as minutes east
ZoneSettings == {0, 540}

\* ------------------------------------------------------------------ state
VARIABLES
  users,       \* public.users: set of [id, line_user_id, display_name]
  attendance,  \* public.attendance: set of [id, user_id, start_at, end_at]
  session,     \* Flask session cookie of each browser
  clock,       \* index of the current instant
  resp,        \* the response to the latest request, until time moves on
  hist,        \* history: the latest start/end mutation
  tx,          \* the open database transaction of each request in flight
  done         \* history: the latest transaction that committed

vars == <<users, attendance, session, clock, resp, hist, tx, done>>

now == Instant(clock)

\* ---------------------------------------------------------------- cookies
EmptySession == [k \in {} |-> None]

Put(c, k, v) == [f \in DOMAIN c \cup {k} |-> IF f = k THEN v ELSE c[f]]

\* session.get(k)
Get(c, k) == IF k \in DOMAIN c THEN c[k] ELSE None

\* variant: the decorator lets every request through
login_not_required(c) == TRUE

\* login_required: the wrapped view runs only with user_id in the session
login_required(c) == "user_id" \in DOMAIN c

\* ------------------------------------------------------------- statements
OpenRows(att, uid) == {a \in att : a.user_id = uid /\ a.end_at = NULL}

\* the next value of a table's id sequence, given the ids already drawn
NextId(tbl, drawn) == Cardinality(tbl) + drawn + 1

\* INSERT INTO public.attendance (user_id, start_at) VALUES (%s, NOW())
InsertAttendance(att, id, uid, t) ==
  att \cup {[id |-> id, user_id |-> uid, start_at |-> t, end_at |-> NULL]}

\* variant: the write is bound to the id the client sent
CallerIdFromForm(c, form_id) == form_id

\* the id used for the write: session["user_id"], never a request parameter
CallerId(c, form_id) == c["user_id"]

\* variant: ORDER BY start_at ASC
TargetOldest(att, uid) ==
  {a.id : a \in {o \in OpenRows(att, uid) :
                   \A o2 \in OpenRows(att, uid) : o2.start_at >= o.start_at}}

\* variant: the CTE without "AND end_at IS NULL"
TargetAnyRow(att, uid) ==
  {a.id : a \in {o \in att : /\ o.user_id = uid
                             /\ \A o2 \in att : o2.user_id = uid => o2.start_at <= o.start_at}}

\* WITH target AS (SELECT id ... WHERE user_id = %s AND end_at IS NULL
\*                 ORDER BY start_at DESC LIMIT 1): the rows LIMIT 1 may return
Target(att, uid) ==
  {a.id : a \in {o \in OpenRows(att, uid) :
                   \A o2 \in OpenRows(att, uid) : o2.start_at <= o.start_at}}

\* variant: the UPDATE overwrites start_at instead of setting end_at
UpdateStart(att, tid, t) ==
  {IF a.id = tid THEN [a EXCEPT !.start_at = t] ELSE a : a \in att}

\* UPDATE public.attendance a SET end_at = NOW() FROM target WHERE a.id = target.id
UpdateEnd(att, tid, t) ==
  {IF a.id = tid THEN [a EXCEPT !.end_at = t] ELSE a : a \in att}

\* variant: a plain INSERT, without ON CONFLICT
InsertUser(us, lid, name) ==
  us \cup {[id |-> NextId(us, 0), line_user_id |-> lid, display_name |-> name]}

\* INSERT INTO public.users ... ON CONFLICT (line_user_id) DO UPDATE SET display_name
UpsertUser(us, lid, name) ==
  IF \E u \in us : u.line_user_id = lid
  THEN {IF u.line_user_id = lid THEN [u EXCEPT !.display_name = name] ELSE u : u \in us}
  ELSE us \cup {[id |-> NextId(us, 0), line_user_id |-> lid, display_name |-> name]}

\* RETURNING id, display_name
Returning(us, lid) == CHOOSE u \in us : u.line_user_id = lid


\* ---------------------------------------------------------------- ranking
\* variant: an open session is measured from now back to its start
ElapsedBackwards(a, t) ==
  IF a.end_at = NULL THEN a.start_at - t ELSE a.end_at - a.start_at

\* COALESCE(a.end_at, NOW()) - a.start_at, in minutes
Elapsed(a, t) == (IF a.end_at = NULL THEN t ELSE a.end_at) - a.start_at

RECURSIVE SumMinutes(_, _)
\* SUM(EXTRACT(EPOCH FROM (COALESCE(a.end_at, NOW()) - a.start_at))), in minutes
SumMinutes(rows, t) ==
  IF rows = {} THEN 0
  ELSE LET a == CHOOSE r \in rows : TRUE
       IN  Elapsed(a, t) + SumMinutes(rows \ {a}, t)

\* ROUND(minutes * 60 / 3600.0, 2), in hundredths of an hour (half away from 0)
RoundHours(mins) ==
  IF mins >= 0 THEN (10 * mins + 3) \div 6 ELSE 0 - ((10 * (0 - mins) + 3) \div 6)

\* FROM public.users u JOIN public.attendance a ON a.user_id = u.id
JoinUsers(us, rows) == {p \in us \X rows : p[2].user_id = p[1].id}

\* variant: LEFT JOIN, every user gets an entry
GroupHoursLeftJoin(us, rows, t) ==
  { [user_id |-> u.id, display_name |-> u.display_name,
     hours |-> RoundHours(SumMinutes({a \in rows : a.user_id = u.id}, t))]
    : u \in us }

\* GROUP BY u.id, u.display_name with the hours aggregate
GroupHours(us, rows, t) ==
  LET joined == JoinUsers(us, rows)
  IN  { [user_id |-> u.id, display_name |-> u.display_name,
         hours |-> RoundHours(SumMinutes({p[2] : p \in {q \in joined : q[1] = u}}, t))]
        : u \in {p[1] : p \in joined} }

\* variant: ORDER BY hours DESC, u.id DESC
RankBeforeIdDesc(e, f) ==
  \/ e.hours > f.hours
  \/ (e.hours = f.hours /\ e.user_id >= f.user_id)

\* the sort key hours DESC, u.id ASC: e is not after f
RankBefore(e, f) ==
  \/ e.hours > f.hours
  \/ (e.hours = f.hours /\ e.user_id <= f.user_id)

RECURSIVE OrderRank(_)
\* ORDER BY hours DESC, u.id ASC
OrderRank(entries) ==
  IF entries = {} THEN <<>>
  ELSE LET first == CHOOSE e \in entries : \A f \in entries : RankBefore(e, f)
       IN  <<first>> \o OrderRank(entries \ {first})

\* a %s parameter compared with / cast to a date
SqlDate(s) == fromisoformat(s)

\* WHERE a.start_at::date = %s
RowsOnDay(att, p, zone) ==
  LET day == SqlDate(p)
  IN  {a \in att : LocalDay(a.start_at, zone) = day}

\* WHERE a.start_at >= %s::date AND a.start_at < (%s::date + INTERVAL '1 day')
RowsInRange(att, p1, p2, zone) ==
  LET from  == DayStart(SqlDate(p1), zone)
      until == DayStart(SqlDate(p2) + 1, zone)
  IN  {a \in att : a.start_at >= from /\ a.start_at < until}

RankDay(us, att, p, t, zone) == OrderRank(GroupHours(us, RowsOnDay(att, p, zone), t))

RankRange(us, att, p1, p2, t, zone) ==
  OrderRank(GroupHours(us, RowsInRange(att, p1, p2, zone), t))

\* today / week_start / month_start of index()
Today(t) == LocalDay(t, TZ)

WeekStart(day) == day - Weekday(day)

MonthStart(day) == day - (CivilFromDays(day)[3] - 1)

\* -------------------------------------------------------------- timetable
\* day_str = request.args.get("day") or date.today().isoformat()
DayStr(args, t, zone) ==
  IF "day" \in DOMAIN args /\ args["day"] # <<>>
  THEN args["day"]
  ELSE isoformat(LocalDay(t, zone))

RECURSIVE OrderByStart(_)
\* ORDER BY start_at ASC: every order the query may return (rows of equal
\* start come in any order)
OrderByStart(rows) ==
  IF rows = {} THEN {<<>>}
  ELSE UNION { {<<r>> \o rest : rest \in OrderByStart(rows \ {r})}
               : r \in {e \in rows : \A q \in rows : e.start_at <= q.start_at} }

Max(a, b) == IF a >= b THEN a ELSE b

\* variant: the percentage is taken of a half day
PctOfHalfDay(mins) == [num |-> mins * 100, den |-> 12 * 60]

\* mins / (24 * 60) * 100, as the fraction num/den
Pct(mins) == [num |-> mins * 100, den |-> 24 * 60]

\* variant: an open row ends where it starts
EndAtStart(r, t) == IF r.end_at # NULL THEN r.end_at ELSE r.start_at

\* end = r["end_at"].astimezone(TZ) if r["end_at"] else now
EndOf(r, t) == IF r.end_at # NULL THEN r.end_at ELSE t

\* variant: the difference as it comes
HeightUnclamped(st_min, et_min) == et_min - st_min

\* height = max(0, et_min - st_min)
Height(st_min, et_min) == Max(0, et_min - st_min)

\* one entry of blocks; the labels start and end are kept as minutes of the
\* day, "now" as NULL
Block(r, t) ==
  LET st_min == LocalMinute(r.start_at, TZ)
      et_min == LocalMinute(EndOf(r, t), TZ)
  IN  [ user_id    |-> r.user_id,
        top_pct    |-> Pct(st_min),
        height_pct |-> Pct(Height(st_min, et_min)),
        start      |-> st_min,
        end        |-> IF r.end_at # NULL THEN et_min ELSE NULL,
        is_running |-> (r.end_at = NULL) ]

\* blocks, for the rows in the order the query returned them
Blocks(rows, t) == [i \in 1..Len(rows) |-> Block(rows[i], t)]

\* -------------------------------------------------------------- responses
Redirect(b, h, to) == [browser |-> b, handler |-> h, kind |-> "redirect", to |-> to]

Failure(b, h, code) == [browser |-> b, handler |-> h, kind |-> "error", status |-> code]

NoResponse == [browser |-> "none", handler |-> "none", kind |-> "none"]

\* history record of a start/end mutation by the logged-in user uid: the
\* table before it; for an end that follows a start of the same user made
\* without an open session (paired), also the table before that start
NoMutation == [kind |-> "none", uid |-> 0, before |-> {}, paired |-> FALSE, origin |-> {}]

Mutation(kind, uid) ==
  LET paired == /\ kind = "end"
                /\ hist.kind = "start"
                /\ hist.uid = uid
                /\ OpenRows(hist.before, uid) = {}
  IN  [ kind |-> kind, uid |-> uid, before |-> attendance, paired |-> paired,
        origin |-> IF paired THEN hist.before ELSE attendance ]

\* requests that may be in flight at once
Requests == {"r1", "r2"}

\* no transaction
Idle == [kind |-> "idle"]

\* ------------------------------------------------------------------- init
Init ==
  /\ users = {}
  /\ attendance = {}
  /\ session = [b \in Browsers |-> EmptySession]
  /\ clock = 1
  /\ resp = NoResponse
  /\ hist = NoMutation
  /\ tx = [t \in Requests |-> Idle]
  /\ done = Idle

\* ---------------------------------------------------------------- actions
\* time passes between requests
Tick ==
  /\ clock < NumInstants
  /\ clock' = clock + 1
  /\ resp' = NoResponse
  /\ UNCHANGED <<users, attendance, session, hist, tx, done>>

\* GET /login
login(b) ==
  \E state \in Tokens :
    /\ session' = [session EXCEPT ![b] = Put(session[b], "oauth_state", state)]
    /\ resp' = [browser |-> b, handler |-> "login", kind |-> "redirect", to |-> "line",
                state |-> state]
    /\ UNCHANGED <<users, attendance, clock, hist, tx, done>>

\* GET /login/line/callback?code=..&state=.. ; line is what the LINE token
\* and profile endpoints answer
login_line_callback(b, code, state, line) ==
  /\ UNCHANGED <<attendance, clock, hist, tx, done>>
  /\ IF code = None \/ state # Get(session[b], "oauth_state")
     THEN /\ resp' = Failure(b, "callback", 400)
          /\ UNCHANGED <<users, session>>
     ELSE IF ~line.token_ok \/ line.profile.userId = None
     THEN /\ resp' = Failure(b, "callback", 400)
          /\ UNCHANGED <<users, session>>
     ELSE LET name == IF line.profile.displayName = "" THEN "LINE user"
                      ELSE line.profile.displayName
              us   == UpsertUser(users, line.profile.userId, name)
              u    == Returning(us, line.profile.userId)
          IN  /\ users' = us
              /\ session' = [session EXCEPT ![b] =
                   Put(Put(EmptySession, "user_id", u.id), "display_name", u.display_name)]
              /\ resp' = Redirect(b, "callback", "index")

\* GET /logout
logout(b) ==
  /\ session' = [session EXCEPT ![b] = EmptySession]
  /\ resp' = Redirect(b, "logout", "login")
  /\ UNCHANGED <<users, attendance, clock, hist, tx, done>>

\* the page index() renders; db_tz is the TimeZone of its database session
HomePage(b, c, us, att, t, db_tz) ==
  LET today       == Today(t)
      week_start  == WeekStart(today)
      month_start == MonthStart(today)
      today_s     == isoformat(today)
      week_s      == isoformat(week_start)
      month_s     == isoformat(month_start)
  IN  [ browser |-> b, handler |-> "index", kind |-> "home",
        username |-> c["display_name"],
        rank_today |-> RankDay(us, att, today_s, t, db_tz),
        rank_week |-> RankRange(us, att, week_s, today_s, t, db_tz),
        rank_month |-> RankRange(us, att, month_s, today_s, t, db_tz),
        today |-> today_s,
        week_start |-> week_s,
        month_start |-> month_s ]

\* variant: rendering the home page closes the sessions still open
index_closing(b, db_tz) ==
  /\ UNCHANGED <<users, session, clock, hist, tx, done>>
  /\ IF ~login_required(session[b])
     THEN /\ resp' = Redirect(b, "index", "login")
          /\ UNCHANGED attendance
     ELSE /\ resp' = HomePage(b, session[b], users, attendance, now, db_tz)
          /\ attendance' = {IF a.end_at = NULL THEN [a EXCEPT !.end_at = now] ELSE a
                               : a \in attendance}

\* GET /
index(b, db_tz) ==
  /\ UNCHANGED <<users, attendance, session, clock, hist, tx, done>>
  /\ IF ~login_required(session[b])
     THEN resp' = Redirect(b, "index", "login")
     ELSE IF "display_name" \notin DOMAIN session[b]
     THEN resp' = Failure(b, "index", 500)
     ELSE resp' = HomePage(b, session[b], users, attendance, now, db_tz)

\* the page timetable_view() renders for a day string that parses to day d
\* and the attendance rows its query returned
TimetablePage(b, c, us, rows, day_str, d, t) ==
  [ browser |-> b, handler |-> "timetable", kind |-> "timetable",
    day |-> day_str,
    prev_day |-> isoformat(d - 1),
    next_day |-> isoformat(d + 1),
    users |-> us,
    blocks |-> Blocks(rows, t),
    username |-> c["display_name"] ]

\* GET /timetable[?day=..] ; sys_tz is the local zone of the app process
timetable_view(b, args, db_tz, sys_tz) ==
  /\ UNCHANGED <<users, attendance, session, clock, hist, tx, done>>
  /\ IF ~login_required(session[b])
     THEN resp' = Redirect(b, "timetable", "login")
     ELSE LET day_str == DayStr(args, now, sys_tz)
              d       == fromisoformat(day_str)
          IN  IF d = ValueError \/ "display_name" \notin DOMAIN session[b]
              THEN resp' = Failure(b, "timetable", 500)
              ELSE \E rows \in OrderByStart(RowsOnDay(attendance, day_str, db_tz)) :
                     resp' = TimetablePage(b, session[b], users, rows, day_str, d, now)

\* POST /attendance/start ; form_id is an id the client may send along
attendance_start(b, form_id) ==
  /\ UNCHANGED <<users, session, clock, tx, done>>
  /\ IF ~login_required(session[b])
     THEN /\ resp' = Redirect(b, "start", "login")
          /\ UNCHANGED <<attendance, hist>>
     ELSE IF "user_id" \notin DOMAIN session[b]
     THEN /\ resp' = Failure(b, "start", 500)
          /\ UNCHANGED <<attendance, hist>>
     ELSE /\ Cardinality(attendance) < MaxRows
          /\ LET uid == CallerId(session[b], form_id)
             IN  attendance' = InsertAttendance(attendance, NextId(attendance, 0), uid, now)
          /\ hist' = Mutation("start", session[b]["user_id"])
          /\ resp' = Redirect(b, "start", "timetable_view")

\* POST /attendance/end
attendance_end(b, form_id) ==
  /\ UNCHANGED <<users, session, clock, tx, done>>
  /\ IF ~login_required(session[b])
     THEN /\ resp' = Redirect(b, "end", "login")
          /\ UNCHANGED <<attendance, hist>>
     ELSE IF "user_id" \notin DOMAIN session[b]
     THEN /\ resp' = Failure(b, "end", 500)
          /\ UNCHANGED <<attendance, hist>>
     ELSE LET uid == CallerId(session[b], form_id)
          IN  /\ IF Target(attendance, uid) = {}
                 THEN attendance' = attendance
                 ELSE \E tid \in Target(attendance, uid) :
                        attendance' = UpdateEnd(attendance, tid, now)
              /\ hist' = Mutation("end", session[b]["user_id"])
              /\ resp' = Redirect(b, "end", "timetable_view")

\* ------------------------------------------- requests handled concurrently
\* Each handler runs one statement in its own transaction and then commits
\* (READ COMMITTED): the statement sees the rows committed when it runs, its
\* NOW() is the start of its transaction, its write shows at the commit.
InFlight(uid) == {o \in Requests : tx[o].kind # "idle" /\ tx[o].uid = uid}

Drawn == Cardinality({o \in Requests : tx[o].kind = "start"})

\* history record of a commit: whether another request of the same user was
\* in flight meanwhile, and the user's open rows when the statement ran
Committed(t) == [kind |-> "done", uid |-> t.uid, conc |-> t.conc, base |-> t.base]

\* attendance_start up to cur.execute: the INSERT runs
start_execute(r, b, form_id) ==
  /\ tx[r] = Idle
  /\ login_required(session[b])
  /\ "user_id" \in DOMAIN session[b]
  /\ Cardinality(attendance) + Drawn < MaxRows
  /\ LET uid == CallerId(session[b], form_id)
         new == [ kind |-> "start", browser |-> b, uid |-> uid, at |-> now,
                  id |-> NextId(attendance, Drawn),
                  base |-> Cardinality(OpenRows(attendance, uid)),
                  conc |-> (InFlight(uid) # {}) ]
     IN  tx' = [o \in Requests |->
                  IF o = r THEN new
                  ELSE IF o \in InFlight(uid) THEN [tx[o] EXCEPT !.conc = TRUE]
                  ELSE tx[o]]
  /\ UNCHANGED <<users, attendance, session, clock, resp, hist, done>>

\* attendance_start from db.commit(): the inserted row becomes visible
start_commit(r) ==
  /\ tx[r].kind = "start"
  /\ attendance' = InsertAttendance(attendance, tx[r].id, tx[r].uid, tx[r].at)
  /\ tx' = [tx EXCEPT ![r] = Idle]
  /\ done' = Committed(tx[r])
  /\ resp' = Redirect(tx[r].browser, "start", "timetable_view")
  /\ UNCHANGED <<users, session, clock, hist>>

\* attendance_end up to cur.execute: the CTE picks its target among the
\* committed rows; the UPDATE then waits for the row lock of an earlier
\* uncommitted UPDATE of the same row
end_execute(r, b, form_id) ==
  /\ tx[r] = Idle
  /\ login_required(session[b])
  /\ "user_id" \in DOMAIN session[b]
  /\ LET uid == CallerId(session[b], form_id)
     IN  \E tid \in (IF Target(attendance, uid) = {} THEN {0} ELSE Target(attendance, uid)) :
           LET new == [ kind |-> "end", browser |-> b, uid |-> uid, at |-> now,
                        target |-> tid,
                        waits |-> {o \in Requests : /\ tid # 0
                                                     /\ tx[o].kind = "end"
                                                     /\ tx[o].target = tid},
                        base |-> Cardinality(OpenRows(attendance, uid)),
                        conc |-> (InFlight(uid) # {}) ]
           IN  tx' = [o \in Requests |->
                        IF o = r THEN new
                        ELSE IF o \in InFlight(uid) THEN [tx[o] EXCEPT !.conc = TRUE]
                        ELSE tx[o]]
  /\ UNCHANGED <<users, attendance, session, clock, resp, hist, done>>

\* attendance_end from the granted row lock to db.commit(): the UPDATE is
\* applied to the row the CTE picked and becomes visible
end_commit(r) ==
  /\ tx[r].kind = "end"
  /\ tx[r].waits = {}
  /\ attendance' = IF tx[r].target = 0 THEN attendance
                   ELSE UpdateEnd(attendance, tx[r].target, tx[r].at)
  /\ tx' = [o \in Requests |->
              IF o = r THEN Idle
              ELSE IF tx[o].kind = "end" THEN [tx[o] EXCEPT !.waits = @ \ {r}]
              ELSE tx[o]]
  /\ done' = Committed(tx[r])
  /\ resp' = Redirect(tx[r].browser, "end", "timetable_view")
  /\ UNCHANGED <<users, session, clock, hist>>

\* ids a client may put into a request
FormIds == {1, 2}

\* the answers of LINE while the attendance handlers are exercised: a granted
\* token for either of two accounts with a fixed name each
SignInAnswers ==
  {a \in LineAnswers : a.profile.displayName \in {"alice", "bob"}}

\* LINE is not asked anything when the request carries no code
AnswersFor(code) ==
  IF code = None THEN {[token_ok |-> FALSE, profile |-> [userId |-> None, displayName |-> ""]]}
  ELSE LineAnswers

\* the process zone is read only when the request names no day
ProcessZonesFor(args) ==
  IF "day" \in DOMAIN args /\ args["day"] # <<>> THEN {0} ELSE ZoneSettings

\* the database zone is read only by the query, which a day that does not
\* parse never reaches
DatabaseZonesFor(args) ==
  IF fromisoformat(DayStr(args, 0, 0)) = ValueError THEN {0} ELSE ZoneSettings

\* the attendance handlers and the views; users sign in through a callback
\* that carries a code and, like their session, no state
Next ==
  \/ Tick
  \/ \E b \in Browsers, line \in SignInAnswers : login_line_callback(b, "c", None, line)
  \/ \E b \in Browsers : logout(b)
  \/ \E b \in Browsers, db_tz \in ZoneSettings : index(b, db_tz)
  \/ \E b \in Browsers, args \in TimetableArgs :
       \E db_tz \in DatabaseZonesFor(args), sys_tz \in ProcessZonesFor(args) :
         timetable_view(b, args, db_tz, sys_tz)
  \/ \E b \in Browsers, f \in FormIds : attendance_start(b, f)
  \/ \E b \in Browsers, f \in FormIds : attendance_end(b, f)

Spec == Init /\ [][Next]_vars

NextConc ==
  \/ Tick
  \/ \E b \in Browsers, line \in SignInAnswers : login_line_callback(b, "c", None, line)
  \/ \E r \in Requests, b \in Browsers, f \in FormIds : start_execute(r, b, f)
  \/ \E r \in Requests : start_commit(r)
  \/ \E r \in Requests, b \in Browsers, f \in FormIds : end_execute(r, b, f)
  \/ \E r \in Requests : end_commit(r)

\* the handlers of requests that overlap in time
SpecConc == Init /\ [][NextConc]_vars

\* the login flow with every callback input, and a start to show who is
\* logged in
NextAuth ==
  \/ \E b \in Browsers : login(b)
  \/ \E b \in Browsers, code \in CodeParams, state \in StateParams :
       \E line \in AnswersFor(code) : login_line_callback(b, code, state, line)
  \/ \E b \in Browsers : logout(b)
  \/ \E b \in Browsers, f \in FormIds : attendance_start(b, f)

SpecAuth == Init /\ [][NextAuth]_vars

\* the instants at which a run of the timetable specification may begin: the
\* instants from the second on come in stretches of NumInstants
ViewStarts == {2, 2 + NumInstants}

\* the app has been running for a while when the first request arrives
InitView ==
  /\ users = {}
  /\ attendance = {}
  /\ session = [b \in Browsers |-> EmptySession]
  /\ clock \in ViewStarts
  /\ resp = NoResponse
  /\ hist = NoMutation
  /\ tx = [t \in Requests |-> Idle]
  /\ done = Idle

\* time passes between requests, within the stretch the run began in
TickView ==
  /\ (clock - 2) % NumInstants < NumInstants - 1
  /\ clock' = clock + 1
  /\ resp' = NoResponse
  /\ UNCHANGED <<users, attendance, session, hist, tx, done>>

\* the timetable requests of this specification: those of the default day,
\* which moves along with the clock
ViewArgs == {NoArgs}

\* users sign in, clock in and out, and look at the timetable
NextView ==
  \/ TickView
  \/ \E b \in Browsers, line \in SignInAnswers : login_line_callback(b, "c", None, line)
  \/ \E b \in Browsers, args \in ViewArgs :
       \E db_tz \in DatabaseZonesFor(args), sys_tz \in ProcessZonesFor(args) :
         timetable_view(b, args, db_tz, sys_tz)
  \/ \E b \in Browsers : attendance_start(b, 1)
  \/ \E b \in Browsers : attendance_end(b, 1)

SpecView == InitView /\ [][NextView]_vars

\* ----------------------------------------------------------------- claims
Mine(att, uid) == {a \in att : a.user_id = uid}

Others(att, uid) == {a \in att : a.user_id # uid}

\* C1: in every reachable state each user has at most one attendance row
\* whose end timestamp is null.
C1_AtMostOneOpen ==
  \A u \in users : Cardinality(OpenRows(attendance, u.id)) <= 1

\* C2: a start by a user who already has an open session inserts no row and
\* leaves the attendance table as it was.
C2_StartIdempotent ==
  (hist.kind = "start" /\ OpenRows(hist.before, hist.uid) # {})
    => attendance = hist.before

\* C3: when two start/end requests of the same user overlap in time and the
\* user had at most one open row when their statements ran, the user has at
\* most one open row once they have committed.
C3_ConcurrentAtMostOneOpen ==
  (done.kind = "done" /\ done.conc /\ done.base <= 1 /\ InFlight(done.uid) = {})
    => Cardinality(OpenRows(attendance, done.uid)) <= 1

\* C4: an end by a user without an open session raises no error, inserts no
\* row and changes no row: the attendance table is identical before and after.
C4_EndWithoutOpenIsNoOp ==
  (hist.kind = "end" /\ OpenRows(hist.before, hist.uid) = {})
    => /\ attendance = hist.before
       /\ resp.handler = "end" => resp.kind = "redirect"

C4_Witness ==
  /\ hist.kind = "end"
  /\ OpenRows(hist.before, hist.uid) = {}
  /\ Mine(hist.before, hist.uid) # {}
  /\ \E b \in Browsers : resp = Redirect(b, "end", "timetable_view")

\* C5: for a user without an open session, a start followed by an end adds
\* exactly one row of that user, the row is closed with end >= start, and the
\* user has no open session afterwards.
C5_StartThenEnd ==
  (hist.kind = "end" /\ hist.paired)
    => LET u     == hist.uid
           added == Mine(attendance, u) \ Mine(hist.origin, u)
       IN  /\ Mine(hist.origin, u) \subseteq attendance
           /\ Cardinality(added) = 1
           /\ \A a \in added : a.end_at # NULL /\ a.end_at >= a.start_at
           /\ OpenRows(attendance, u) = {}

C5_Witness ==
  /\ hist.kind = "end"
  /\ hist.paired
  /\ hist.origin # {}
  /\ \E a \in attendance \ hist.origin :
       a.user_id = hist.uid /\ a.end_at # NULL /\ a.end_at > a.start_at

\* C6: a start or end by a logged-in user inserts or updates only rows whose
\* user_id is that user's session id; every row of any other user is unchanged.
C6_OwnRowsOnly ==
  hist.kind \in {"start", "end"}
    => /\ Others(attendance, hist.uid) = Others(hist.before, hist.uid)
       /\ \A a \in attendance \ hist.before : a.user_id = hist.uid
       /\ hist.kind = "start" =>
            \E a \in attendance \ hist.before :
              a.user_id = hist.uid /\ \A o \in hist.before : o.id # a.id

C6_Witness ==
  /\ hist.kind = "end"
  /\ attendance # hist.before
  /\ \E a \in attendance : a.user_id # hist.uid /\ a.end_at = NULL

\* C7: handling a home or timetable request, with any parameters and in any
\* store state, leaves the users and attendance tables unchanged.
C7_ViewsArePure ==
  [][resp'.handler \in {"index", "timetable"} => UNCHANGED <<users, attendance>>]_vars

C7_Witness ==
  /\ resp.kind = "home"
  /\ resp.rank_today # <<>>
  /\ \E a \in attendance : a.end_at = NULL

\* C8: a request to start, end, home or timetable that carries no user_id in
\* its login session is answered with a redirect to login and changes nothing.
C8_UnauthenticatedRedirect ==
  [][\A b \in Browsers :
       ( /\ "user_id" \notin DOMAIN session[b]
         /\ resp'.browser = b
         /\ resp'.handler \in {"start", "end", "index", "timetable"} )
         => /\ resp'.kind = "redirect"
            /\ resp'.to = "login"
            /\ UNCHANGED <<users, attendance, session, hist>>]_vars

C8_Witness ==
  /\ \E b \in Browsers : resp = Redirect(b, "start", "login")
  /\ \A b \in Browsers : "user_id" \notin DOMAIN session[b]
  /\ \E a \in attendance : a.end_at = NULL

\* C9: a timetable request whose day parameter is not a valid ISO date is
\* answered with the timetable of today's date.
C9_MalformedDayFallsBack ==
  [][\A b \in Browsers, args \in TimetableArgs, z \in ZoneSettings, y \in ZoneSettings :
       ( /\ login_required(session[b])
         /\ "day" \in DOMAIN args
         /\ args["day"] # <<>>
         /\ fromisoformat(args["day"]) = ValueError
         /\ timetable_view(b, args, z, y) )
         => /\ resp'.kind = "timetable"
            /\ resp'.day \in {isoformat(LocalDay(now, zone)) : zone \in ZoneSettings}]_vars

\* the day number of a row's start as the ranking's database session sees it
StartDay(a, zone) == LocalDay(a.start_at, zone)

RankedUsers(rank) == {rank[i].user_id : i \in 1..Len(rank)}

StartedIn(att, zone, first, last) ==
  {a.user_id : a \in {r \in att : StartDay(r, zone) >= first /\ StartDay(r, zone) <= last}}

\* C10: each ranking of the home page holds exactly one entry for every user
\* with a session starting in its window (today; Monday..today; the 1st..today,
\* a start's day taken in the zone of the database session) and no entry for
\* anyone else.
C10_RankedIffSessionInWindow ==
  resp.kind = "home"
    => LET today == Today(now)
       IN  /\ \E z \in ZoneSettings :
                /\ RankedUsers(resp.rank_today) = StartedIn(attendance, z, today, today)
                /\ RankedUsers(resp.rank_week)
                     = StartedIn(attendance, z, WeekStart(today), today)
                /\ RankedUsers(resp.rank_month)
                     = StartedIn(attendance, z, MonthStart(today), today)
           /\ \A r \in {resp.rank_today, resp.rank_week, resp.rank_month} :
                Len(r) = Cardinality(RankedUsers(r))

C10_Witness ==
  /\ resp.kind = "home"
  /\ Cardinality(users) = 2
  /\ resp.rank_today = <<>>
  /\ Len(resp.rank_week) = 1
  /\ resp.rank_month = <<>>

\* the entry of user uid in a ranking, as a set (empty: not ranked)
EntryOf(rank, uid) == {rank[i] : i \in {j \in 1..Len(rank) : rank[j].user_id = uid}}

\* every entry of ranking first has an entry in ranking later with at least
\* its hours, and with the same hours when the user's rows in the window
\* are all closed
NotDecreased(first, later, window) ==
  \A i \in 1..Len(first) :
    LET e == first[i]
    IN  \E f \in EntryOf(later, e.user_id) :
          /\ f.hours >= e.hours
          /\ OpenRows(window, e.user_id) = {} => f.hours = e.hours

\* the instants of the table from the current one on that fall on today
LaterToday == {k \in clock..Len(InstantTable) : Today(Instant(k)) = Today(now)}

\* C11: with the stored rows unchanged, a ranking queried again for the same
\* date at a later instant gives every user at least the hours it gave before,
\* and exactly the same hours to a user whose sessions in the window are all
\* closed.
C11_HoursNeverDecrease ==
  resp.kind = "home"
    => \A z \in ZoneSettings, k \in LaterToday :
         LET c     == session[resp.browser]
             first == HomePage(resp.browser, c, users, attendance, now, z)
             later == HomePage(resp.browser, c, users, attendance, Instant(k), z)
         IN  resp = first
               => /\ NotDecreased(first.rank_today, later.rank_today,
                                  RowsOnDay(attendance, first.today, z))
                  /\ NotDecreased(first.rank_week, later.rank_week,
                                  RowsInRange(attendance, first.week_start, first.today, z))
                  /\ NotDecreased(first.rank_month, later.rank_month,
                                  RowsInRange(attendance, first.month_start, first.today, z))

\* a week ranking with an open session (gaining hours later today) and a user
\* with closed sessions only
C11_Witness ==
  /\ resp.kind = "home"
  /\ Len(resp.rank_week) = 2
  /\ \E a \in attendance : a.end_at = NULL /\ a.start_at < now
  /\ \E a \in attendance : a.end_at # NULL /\ a.end_at > a.start_at
  /\ Cardinality(LaterToday) >= 2

\* the fraction p equals n/d
IsFraction(p, n, d) == p.num * d = n * p.den

\* the blocks of the timetable page on display that show a session of 09:00 to
\* 09:30 on the page's day
HalfHourBlocks ==
  {i \in 1..Len(resp.blocks) :
     /\ resp.blocks[i].start = 9 * 60
     /\ resp.blocks[i].end = 9 * 60 + 30
     /\ \E r \in attendance :
          /\ r.user_id = resp.blocks[i].user_id
          /\ r.start_at = DayStart(fromisoformat(resp.day), TZ) + 9 * 60
          /\ r.end_at = r.start_at + 30}

\* C12 as stated: the block of a session from 09:00 to 09:30 on the day shown
\* has top_percent 37.5, height_percent 1.5625 and is not running.
C12_HalfHourBlockAsStated ==
  resp.kind = "timetable"
    => \A i \in HalfHourBlocks :
         /\ IsFraction(resp.blocks[i].top_pct, 375, 10)
         /\ IsFraction(resp.blocks[i].height_pct, 15625, 10000)
         /\ ~resp.blocks[i].is_running

\* C12 amended: the block of a session from 09:00 to 09:30 on the day shown
\* has top_percent 37.5, height_percent 30/1440*100 = 25/12 (2.0833...) and is
\* not running.
C12_HalfHourBlock ==
  resp.kind = "timetable"
    => \A i \in HalfHourBlocks :
         /\ IsFraction(resp.blocks[i].top_pct, 375, 10)
         /\ IsFraction(resp.blocks[i].height_pct, 30 * 100, 1440)
         /\ ~resp.blocks[i].is_running

C12_Witness ==
  /\ resp.kind = "timetable"
  /\ HalfHourBlocks # {}
  /\ resp.day = isoformat(DaysFromCivil(2024, 2, 2))

\* the rows whose start falls on day d in zone z
StartsOn(att, d, z) == {a \in att : LocalDay(a.start_at, z) = d}

\* the minutes from a row's start to e, both as minutes of the day in TZ, and
\* none when e comes earlier in the day
MinutesUntil(r, e) ==
  LET diff == LocalMinute(e, TZ) - LocalMinute(r.start_at, TZ)
  IN  IF diff < 0 THEN 0 ELSE diff

\* block blk is what the timetable shows for row r at instant t
Shows(blk, r, t) ==
  /\ blk.user_id = r.user_id
  /\ blk.start = LocalMinute(r.start_at, TZ)
  /\ IF r.end_at = NULL
     THEN /\ blk.is_running
          /\ blk.end = NULL
          /\ IsFraction(blk.height_pct, MinutesUntil(r, t) * 100, 24 * 60)
     ELSE /\ ~blk.is_running
          /\ blk.end = LocalMinute(r.end_at, TZ)
          /\ IsFraction(blk.height_pct, MinutesUntil(r, r.end_at) * 100, 24 * 60)

\* C13: in a timetable page every open session shown has a block that is
\* running, labelled "now", with a height measured from its start to the
\* query instant; every closed session shown has a block that is not running,
\* with a height measured to its stored end; and every block is of such a row.
C13_RunningUntilNow ==
  resp.kind = "timetable"
    => \E z \in ZoneSettings :
         LET shown == StartsOn(attendance, fromisoformat(resp.day), z)
         IN  /\ Len(resp.blocks) = Cardinality(shown)
             /\ \A r \in shown : \E i \in 1..Len(resp.blocks) : Shows(resp.blocks[i], r, now)
             /\ \A i \in 1..Len(resp.blocks) : \E r \in shown : Shows(resp.blocks[i], r, now)

\* an open session started earlier today next to a closed one
C13_Witness ==
  /\ resp.kind = "timetable"
  /\ \E i \in 1..Len(resp.blocks) :
       /\ resp.blocks[i].is_running
       /\ resp.blocks[i].height_pct.num > 0
       /\ \E r \in attendance : r.end_at = NULL /\ r.start_at < now
                                /\ Shows(resp.blocks[i], r, now)
  /\ \E i \in 1..Len(resp.blocks) : ~resp.blocks[i].is_running

\* C14: a timetable page is built with one zone throughout (the zone TZ of
\* its minute offsets and of its now): without a day parameter it is the page
\* of today in TZ, and its blocks are those of exactly the sessions whose
\* start falls on the page's day in TZ.
C14_OneZoneForTheDay ==
  [][\A b \in Browsers, args \in ViewArgs, z \in ZoneSettings, y \in ZoneSettings :
       ( /\ login_required(session[b])
         /\ timetable_view(b, args, z, y)
         /\ resp'.kind = "timetable" )
         => LET shown == StartsOn(attendance, fromisoformat(resp'.day), TZ)
            IN  /\ args = NoArgs => resp'.day = isoformat(LocalDay(now, TZ))
                /\ Len(resp'.blocks) = Cardinality(shown)
                /\ \A r \in shown :
                     \E i \in 1..Len(resp'.blocks) : Shows(resp'.blocks[i], r, now)]_vars

\* C15: an end request just answered has closed, at the current instant, one
\* open row of the caller that has the latest start among the caller's open
\* rows, and has left every other row as it was; without an open row it has
\* changed nothing.
C15_EndClosesLatestOpen ==
  (hist.kind = "end" /\ \E b \in Browsers : resp = Redirect(b, "end", "timetable_view"))
    => LET open == OpenRows(hist.before, hist.uid)
       IN  IF open = {}
           THEN attendance = hist.before
           ELSE \E r \in open :
                  /\ \A o \in open : o.start_at <= r.start_at
                  /\ attendance = (hist.before \ {r}) \cup {[r EXCEPT !.end_at = now]}

\* an end by a user with two open rows of different starts: the earlier one
\* stays open
C15_Witness ==
  /\ hist.kind = "end"
  /\ \E b \in Browsers : resp = Redirect(b, "end", "timetable_view")
  /\ \E r1, r2 \in OpenRows(hist.before, hist.uid) : r1.start_at < r2.start_at
  /\ Cardinality(OpenRows(attendance, hist.uid)) = 1

\* the rankings of the home page on display
Rankings == {resp.rank_today, resp.rank_week, resp.rank_month}

\* C16: in every ranking of a home page an earlier entry has more hours than
\* a later one, or the same hours and a smaller user id; the order of the
\* entries is thereby fixed by their content.
C16_RankingOrder ==
  resp.kind = "home"
    => \A r \in Rankings : \A i, j \in 1..Len(r) :
         i < j => \/ r[i].hours > r[j].hours
                  \/ (r[i].hours = r[j].hours /\ r[i].user_id < r[j].user_id)

\* two users tied at more than zero hours in one ranking
C16_Witness ==
  /\ resp.kind = "home"
  /\ \E r \in Rankings :
       /\ Len(r) = 2
       /\ r[1].hours = r[2].hours
       /\ r[1].hours > 0

\* the minute of the day at which a block ends: its stored end, or now
EndMinute(blk) == IF blk.is_running THEN LocalMinute(now, TZ) ELSE blk.end

\* C17: no block of a timetable page has a negative height, and a block whose
\* end minute of the day does not come after its start minute has height 0.
C17_HeightNotNegative ==
  resp.kind = "timetable"
    => \A i \in 1..Len(resp.blocks) :
         LET blk == resp.blocks[i]
         IN  /\ blk.height_pct.den > 0
             /\ blk.height_pct.num >= 0
             /\ EndMinute(blk) <= blk.start => blk.height_pct.num = 0

\* a session that ended on a later day at an earlier time of day
C17_Witness ==
  /\ resp.kind = "timetable"
  /\ \E i \in 1..Len(resp.blocks) :
       /\ ~resp.blocks[i].is_running
       /\ resp.blocks[i].end < resp.blocks[i].start
       /\ resp.blocks[i].height_pct.num = 0

\* C18: no step, with requests overlapping or not, changes a closed row or
\* removes a row or changes a row's start or owner.
C18_ClosedRowsAreFinal ==
  [][\A a \in attendance :
       /\ a.end_at # NULL => a \in attendance'
       /\ \E n \in attendance' :
            n.id = a.id /\ n.user_id = a.user_id /\ n.start_at = a.start_at]_vars

\* the user rows with external id lid
Known(us, lid) == {u \in us : u.line_user_id = lid}

\* C19: a callback that logs in, for an external id without a user row, adds
\* exactly one row, of that external id, and logs in as its id; for an
\* external id with a user row it adds no row, logs in as that row's id and
\* changes at most that row's display name.  No step removes a user row or
\* changes its id or external id, and no two rows share an external id.
C19_StableIdentity ==
  [][/\ \A b \in Browsers, code \in CodeParams, state \in StateParams, line \in LineAnswers :
          ( /\ login_line_callback(b, code, state, line)
            /\ resp'.kind = "redirect" )
            => LET lid == line.profile.userId
               IN  /\ Cardinality(Known(users', lid)) = 1
                   /\ \A n \in Known(users', lid) : session'[b]["user_id"] = n.id
                   /\ \A n \in users' \ Known(users', lid) : n \in users
                   /\ IF Known(users, lid) = {}
                      THEN Cardinality(users') = Cardinality(users) + 1
                      ELSE /\ Cardinality(users') = Cardinality(users)
                           /\ \A u \in Known(users, lid) : session'[b]["user_id"] = u.id
     /\ \A u \in users : \E n \in users' : n.id = u.id /\ n.line_user_id = u.line_user_id
     /\ \A m, n \in users' : (m.line_user_id = n.line_user_id \/ m.id = n.id) => m = n]_vars

\* a login of the first external id after the second one has registered
C19_Witness ==
  /\ \E b \in Browsers : /\ resp = Redirect(b, "callback", "index")
                          /\ Get(session[b], "user_id") = 1
  /\ Cardinality(users) = 2
  /\ \E u \in users : u.id = 1 /\ u.line_user_id = "U1" /\ u.display_name = "LINE user"

\* the callback request of browser b carries a code and the state that /login
\* put into b's session
CarriesIssuedState(b, code, state) ==
  /\ code # None
  /\ state # None
  /\ "oauth_state" \in DOMAIN session[b]
  /\ state = session[b]["oauth_state"]

\* C20: a callback without a code, without a state, or with a state other
\* than the one /login issued into the same session is answered with an error
\* and changes neither the users table nor the session.
C20_CallbackNeedsIssuedState ==
  [][\A b \in Browsers, code \in CodeParams, state \in StateParams, line \in LineAnswers :
       ( /\ login_line_callback(b, code, state, line)
         /\ ~CarriesIssuedState(b, code, state) )
         => /\ resp'.kind = "error"
            /\ UNCHANGED <<users, session>>]_vars

====
